---------------------------- MODULE Spec2Model ----------------------------
(* A model of Exercise1/astar.py: weighted multi-heuristic A* search on    *)
(* the 8-puzzle, its solvability gate, neighbour generation, heuristics    *)
(* and the tree metrics computed after a run.                              *)
(*                                                                         *)
(* A puzzle is a sequence of 9 values; Python index i is TLA+ index i+1.   *)
(* A Node object is a record of the sequence `nodes`; its identity is its  *)
(* index, `parent` is an index (0 for None) and `children` is a sequence   *)
(* of indices.                                                             *)
EXTENDS Integers, Sequences, FiniteSets, TLC

VARIABLES
    pc,             \* position of the program
    caller,         \* "solve" (astar.py:240) or "start_run" (statistics.py:30)
    start,          \* parameter start
    goal,           \* parameter goal
    heuristics,     \* parameter heuristics: a sequence of heuristic names
    weights,        \* parameter weights
    initial_state,  \* the module-level variable of astar.py:273, read by solve
    nodes,          \* every Node object created so far, in creation order
    open_set,       \* PriorityQueue.queue: the heap array of <<heuristic, node>>
    g_score,        \* the dict g_score, a function on the puzzles it holds
    current,        \* the node popped last (0 before the first pop)
    neighbors,      \* the neighbours of current the for loop has still to visit
    pops,           \* number of open_set.get() calls so far
    unfinished_tasks, \* PriorityQueue.unfinished_tasks
    result,         \* what a_star returned
    err,            \* the exception that ended the program, or "none"
    metrics,        \* what generate_metrics returned
    record,         \* the result record start_run returned
    origin,         \* walk specifications: the puzzle the walk started from
    cur,            \* walk specifications: the puzzle reached
    steps           \* walk specifications: number of moves made

vars == <<pc, caller, start, goal, heuristics, weights, initial_state, nodes,
          open_set, g_score, current, neighbors, pops, unfinished_tasks,
          result, err, metrics, record, origin, cur, steps>>

searchVars == <<pc, caller, start, goal, heuristics, weights, initial_state,
                nodes, open_set, g_score, current, neighbors, pops,
                unfinished_tasks, result, err, metrics, record>>

walkVars == <<origin, cur, steps>>

-----------------------------------------------------------------------------
(* Program constants *)

Side == 3       \* the reshape to (3, 3)
Cells == 9      \* nn = n * n, the length of the position matrix

(* Bounds of the model *)

MaxScramble == 3    \* start puzzles lie within this many moves of a seed puzzle
MaxIter == 40       \* open_set.get() calls explored per run
MaxWalk == 5        \* moves made by a bounded walk
MaxWeight == 2      \* largest weight drawn

-----------------------------------------------------------------------------
(* Puzzles *)

goal_state == <<0, 1, 2, 3, 4, 5, 6, 7, 8>>

example_state == <<2, 4, 0, 5, 6, 1, 8, 7, 3>>

IsPermutation(p) ==
    /\ Len(p) = Cells
    /\ \A v \in 0..(Cells - 1) : \E i \in 1..Cells : p[i] = v

\* index (0-based) of the first occurrence of v in p
IndexOf(p, v) == CHOOSE i \in 0..(Len(p) - 1) :
                    /\ p[i + 1] = v
                    /\ \A j \in 0..(i - 1) : p[j + 1] # v

Abs(x) == IF x < 0 THEN -x ELSE x

RECURSIVE SumTo(_, _)
\* sum of f[i] for i in 0..n-1
SumTo(f, n) == IF n = 0 THEN 0 ELSE f[n - 1] + SumTo(f, n - 1)

-----------------------------------------------------------------------------
(* Heuristics *)

\* pos_matrix[matrix.reshape(nn)] = np.arange(nn): pos_matrix[v] is the flat
\* index of value v
build_position_matrix(matrix) == [v \in 0..(Cells - 1) |-> IndexOf(matrix, v)]

\* n = pos_matrix1.shape is the shape of the flat position matrix, (9,), so
\* x = pos % 9 and y = pos // 9
manhattan_distance(s, g) ==
    LET pos_matrix1 == build_position_matrix(s)
        pos_matrix2 == build_position_matrix(g)
        n == Cells
        distance == [v \in 0..(Cells - 1) |->
                        Abs((pos_matrix2[v] % n) - (pos_matrix1[v] % n))
                      + Abs((pos_matrix2[v] \div n) - (pos_matrix1[v] \div n))]
    IN  SumTo(distance, Cells)

hamming_distance(s, g) ==
    Cardinality({i \in 1..Cells : s[i] # g[i]})

Heuristic(name, s, g) ==
    IF name = "manhattan_distance" THEN manhattan_distance(s, g)
    ELSE hamming_distance(s, g)

\* weights[i] raises IndexError once i reaches len(weights)
CombineRaises(hs, ws) == Len(ws) < Len(hs)

RECURSIVE CombineUpTo(_, _, _, _, _)
CombineUpTo(s, g, hs, ws, n) ==
    IF n = 0 THEN 0
    ELSE CombineUpTo(s, g, hs, ws, n - 1)
         + (IF ws[n] > 0 THEN ws[n] * Heuristic(hs[n], s, g) ELSE 0)

\* a variant that adds every heuristic whatever its weight
combine_heuristics_unweighted(s, g, hs, ws) ==
    LET RECURSIVE AllUpTo(_)
        AllUpTo(n) == IF n = 0 THEN 0
                      ELSE AllUpTo(n - 1) + Heuristic(hs[n], s, g)
    IN  AllUpTo(Len(hs))

combine_heuristics(s, g, hs, ws) == CombineUpTo(s, g, hs, ws, Len(hs))

-----------------------------------------------------------------------------
(* Solvability *)

RECURSIVE InversionsFrom(_, _)
\* sum over i of the number of later entries smaller than k[i]
InversionsFrom(k, i) ==
    IF i > Len(k) - 1 THEN 0
    ELSE Cardinality({j \in (i + 1)..Len(k) : k[j] < k[i]})
         + InversionsFrom(k, i + 1)

\* a variant that counts only the inversions of entries next to each other
num_inversions_adjacent_only(s) ==
    LET k == SelectSeq(s, LAMBDA v : v # 0)
    IN  Cardinality({i \in 1..(Len(k) - 1) : k[i + 1] < k[i]})

\* a variant that leaves the blank among the counted values
num_inversions_with_blank(s) == InversionsFrom(s, 1)

num_inversions(s) ==
    LET k == SelectSeq(s, LAMBDA v : v # 0) IN InversionsFrom(k, 1)

is_solvable(s) == num_inversions(s) % 2 = 0

-----------------------------------------------------------------------------
(* Nodes and neighbour generation *)

Node(name, puzzle, parent) ==
    [name |-> name, puzzle |-> puzzle, parent |-> parent,
     children |-> <<>>, heuristic |-> 0]

\* a variant that takes rows for columns
SlideBlank_transposed(puzzle, row, col, r2, c2) ==
    [puzzle EXCEPT ![col * Side + row + 1] = puzzle[c2 * Side + r2 + 1],
                   ![c2 * Side + r2 + 1] = 0]

\* node_puzzle[row][col] = node_puzzle[r2][c2]; node_puzzle[r2][c2] = 0
SlideBlank(puzzle, row, col, r2, c2) ==
    [puzzle EXCEPT ![row * Side + col + 1] = puzzle[r2 * Side + c2 + 1],
                   ![r2 * Side + c2 + 1] = 0]

\* a variant that never moves the blank to the right
get_neighbors_no_right(ns, p) ==
    LET parent == ns[p]
        blank == IndexOf(parent.puzzle, 0)
        row == blank \div Side
        col == blank % Side
        up == IF row # 0 /\ parent.name # "down"
              THEN <<Node("up", SlideBlank(parent.puzzle, row, col, row - 1, col), p)>>
              ELSE <<>>
        down == IF row # Side - 1 /\ parent.name # "up"
                THEN <<Node("down", SlideBlank(parent.puzzle, row, col, row + 1, col), p)>>
                ELSE <<>>
        left == IF col # 0 /\ parent.name # "right"
                THEN <<Node("left", SlideBlank(parent.puzzle, row, col, row, col - 1), p)>>
                ELSE <<>>
        right == IF col # Side - 1 /\ parent.name # "left"
                 THEN <<Node("right", SlideBlank(parent.puzzle, row, col, row, col + 1), p)>>
                 ELSE <<>>
    IN  up \o down \o left

\* a variant without the back-step rule
get_neighbors_no_prune(ns, p) ==
    LET parent == ns[p]
        blank == IndexOf(parent.puzzle, 0)
        row == blank \div Side
        col == blank % Side
        up == IF row # 0
              THEN <<Node("up", SlideBlank(parent.puzzle, row, col, row - 1, col), p)>>
              ELSE <<>>
        down == IF row # Side - 1
                THEN <<Node("down", SlideBlank(parent.puzzle, row, col, row + 1, col), p)>>
                ELSE <<>>
        left == IF col # 0
                THEN <<Node("left", SlideBlank(parent.puzzle, row, col, row, col - 1), p)>>
                ELSE <<>>
        right == IF col # Side - 1
                 THEN <<Node("right", SlideBlank(parent.puzzle, row, col, row, col + 1), p)>>
                 ELSE <<>>
    IN  up \o down \o left \o right

\* the neighbours of the node with index p, as fresh Node records whose
\* parent is p, in the order up, down, left, right
get_neighbors(ns, p) ==
    LET parent == ns[p]
        blank == IndexOf(parent.puzzle, 0)
        row == blank \div Side
        col == blank % Side
        up == IF row # 0 /\ parent.name # "down"
              THEN <<Node("up", SlideBlank(parent.puzzle, row, col, row - 1, col), p)>>
              ELSE <<>>
        down == IF row # Side - 1 /\ parent.name # "up"
                THEN <<Node("down", SlideBlank(parent.puzzle, row, col, row + 1, col), p)>>
                ELSE <<>>
        left == IF col # 0 /\ parent.name # "right"
                THEN <<Node("left", SlideBlank(parent.puzzle, row, col, row, col - 1), p)>>
                ELSE <<>>
        right == IF col # Side - 1 /\ parent.name # "left"
                 THEN <<Node("right", SlideBlank(parent.puzzle, row, col, row, col + 1), p)>>
                 ELSE <<>>
    IN  up \o down \o left \o right

-----------------------------------------------------------------------------
(* The priority queue: heapq on the list open_set.queue.  An item is the   *)
(* tuple <<heuristic, node>>.                                              *)

\* (h1, n1) < (h2, n2): the first elements that differ under == decide;
\* Node.__eq__ compares puzzles and Node.__lt__ compares heuristics
ItemLt(ns, a, b) ==
    IF a[1] # b[1] THEN a[1] < b[1]
    ELSE IF ns[a[2]].puzzle = ns[b[2]].puzzle THEN FALSE
    ELSE ns[a[2]].heuristic < ns[b[2]].heuristic

RECURSIVE SiftDown(_, _, _, _, _)
\* heapq._siftdown with newitem = the item that stood at pos (0-based)
SiftDown(ns, heap, newitem, startpos, pos) ==
    IF pos > startpos
    THEN LET parentpos == (pos - 1) \div 2
             parent == heap[parentpos + 1]
         IN  IF ItemLt(ns, newitem, parent)
             THEN SiftDown(ns, [heap EXCEPT ![pos + 1] = parent], newitem,
                           startpos, parentpos)
             ELSE [heap EXCEPT ![pos + 1] = newitem]
    ELSE [heap EXCEPT ![pos + 1] = newitem]

heappush(ns, heap, item) ==
    LET appended == Append(heap, item)
    IN  SiftDown(ns, appended, item, 0, Len(appended) - 1)

RECURSIVE SiftUpLoop(_, _, _)
\* the while loop of heapq._siftup: the smaller child moves up until a leaf
\* is reached; yields the heap and the leaf position
SiftUpLoop(ns, heap, pos) ==
    LET endpos == Len(heap)
        childpos == 2 * pos + 1
        rightpos == childpos + 1
    IN  IF childpos < endpos
        THEN LET c == IF rightpos < endpos
                         /\ ~ItemLt(ns, heap[childpos + 1], heap[rightpos + 1])
                      THEN rightpos ELSE childpos
             IN  SiftUpLoop(ns, [heap EXCEPT ![pos + 1] = heap[c + 1]], c)
        ELSE <<heap, pos>>

SiftUp(ns, heap, pos) ==
    LET newitem == heap[pos + 1]
        sunk == SiftUpLoop(ns, heap, pos)
    IN  SiftDown(ns, sunk[1], newitem, pos, sunk[2])

\* a variant that drops the first item and leaves the rest as it stands
heappop_unordered(ns, heap) == Tail(heap)

\* the heap left by heapq.heappop; the item returned is heap[1]
heappop(ns, heap) ==
    LET lastelt == heap[Len(heap)]
        rest == SubSeq(heap, 1, Len(heap) - 1)
    IN  IF rest # <<>> THEN SiftUp(ns, [rest EXCEPT ![1] = lastelt], 0)
        ELSE rest

\* (neighbor.heuristic, neighbor) in item: the probe is a tuple, the elements
\* of item are a float and a Node.  A tuple never equals a float, and
\* Node.__eq__ first requires self.__class__ == other.__class__.
ClassOf(x) == x.class
ProbeInItem(probe, item) ==
    \E e \in {[class |-> "float", value |-> item[1]],
              [class |-> "Node", value |-> item[2]]} :
        /\ ClassOf(e) = ClassOf(probe)
        /\ e.value = probe.value

\* a variant that finds any queued node holding the puzzle of n
AnyInQueue_same_puzzle(h, n, queue) ==
    \E i \in 1..Len(queue) : nodes[queue[i][2]].puzzle = nodes[n].puzzle

AnyInQueue(h, n, queue) ==
    \E i \in 1..Len(queue) :
        ProbeInItem([class |-> "tuple", value |-> <<h, n>>], queue[i])

-----------------------------------------------------------------------------
(* Tree metrics and path reconstruction *)

RECURSIVE visited_nodes_recursion(_, _)
RECURSIVE VisitedOver(_, _, _)
\* the for loop of visited_nodes_recursion over the first k children
VisitedOver(ns, children, k) ==
    IF k = 0 THEN 0
    ELSE VisitedOver(ns, children, k - 1)
         + 1 + visited_nodes_recursion(ns, children[k])

\* a variant that counts the children and does not descend into them
visited_nodes_children_only(ns, n) == Len(ns[n].children)

visited_nodes_recursion(ns, n) ==
    VisitedOver(ns, ns[n].children, Len(ns[n].children))

\* Node.__len__
NodeLen(ns, n) == 1 + visited_nodes_recursion(ns, n)

RECURSIVE expanded_nodes_recursion(_, _)
RECURSIVE ExpandedOver(_, _, _)
ExpandedOver(ns, children, k) ==
    IF k = 0 THEN 0
    ELSE ExpandedOver(ns, children, k - 1)
         + (IF ns[children[k]].children # <<>>
            THEN expanded_nodes_recursion(ns, children[k]) + 1
            ELSE 0)

expanded_nodes_recursion(ns, n) ==
    ExpandedOver(ns, ns[n].children, Len(ns[n].children))

calculate_expanded_nodes(ns, root) == 1 + expanded_nodes_recursion(ns, root)

\* (visited_nodes - 1) / expanded_nodes, kept as numerator and denominator
calculate_branching_factor(visited_nodes, expanded_nodes) ==
    <<visited_nodes - 1, expanded_nodes>>

RECURSIVE reconstruct_path_without_root(_, _)
\* a variant that leaves out the append after the loop
reconstruct_path_without_root(ns, n) ==
    IF ns[n].parent # 0
    THEN <<n>> \o reconstruct_path_without_root(ns, ns[n].parent)
    ELSE <<>>

RECURSIVE reconstruct_path(_, _)
reconstruct_path(ns, n) ==
    IF ns[n].parent # 0
    THEN <<n>> \o reconstruct_path(ns, ns[n].parent)
    ELSE <<n>>

generate_metrics(ns, n, root) ==
    LET path == reconstruct_path(ns, n)
        visited_nodes == NodeLen(ns, root)
        expanded_nodes == calculate_expanded_nodes(ns, root)
    IN  [path |-> path, visited_nodes |-> visited_nodes,
         expanded_nodes |-> expanded_nodes,
         branching_factor |->
             calculate_branching_factor(visited_nodes, expanded_nodes)]

-----------------------------------------------------------------------------
(* Inputs *)

\* the puzzles one legal blank move away from p: the blank exchanged with
\* the tile above, below, left or right of it inside the grid
LegalMoves(p) ==
    LET blank == IndexOf(p, 0)
        row == blank \div Side
        col == blank % Side
    IN  {SlideBlank(p, row, col, t[1], t[2]) :
            t \in {u \in {<<row - 1, col>>, <<row + 1, col>>,
                          <<row, col - 1>>, <<row, col + 1>>} :
                      /\ u[1] \in 0..(Side - 1)
                      /\ u[2] \in 0..(Side - 1)}}

RECURSIVE Ball(_, _)
\* the puzzles within k legal moves of a puzzle of S
Ball(S, k) ==
    IF k = 0 THEN S
    ELSE Ball(S \cup UNION {LegalMoves(p) : p \in S}, k - 1)

\* goal_state with tiles 1 and 2 exchanged: an odd number of inversions
odd_state == <<0, 2, 1, 3, 4, 5, 6, 7, 8>>

\* not a permutation: tile 1 eight times; only the place of the blank
\* tells its nine arrangements apart
malformed_state == <<0, 1, 1, 1, 1, 1, 1, 1, 1>>

\* nine moves from goal_state
deep_state == <<2, 3, 5, 0, 1, 4, 6, 7, 8>>

Unset == <<>>   \* initial_state when the module was imported, not run

SolvableStarts == Ball({goal_state}, MaxScramble)
UnsolvableStarts == Ball({odd_state}, 1)
DeepStarts == {deep_state}
StartPuzzles ==
    SolvableStarts \cup DeepStarts \cup UnsolvableStarts \cup {malformed_state}

InitialStates == {example_state, odd_state, Unset}

BothHeuristics == <<"manhattan_distance", "hamming_distance">>

WeightLists ==
    {<<a, b>> : a \in 0..MaxWeight, b \in 0..MaxWeight}
    \cup {<<1>>, <<1, 0, 1>>}

\* manhattan_distance reads an uninitialised position matrix when a state
\* is no permutation, so such a state is only paired with weights that skip it
Evaluable(s, hs, ws) ==
    IsPermutation(s)
    \/ \A i \in 1..Len(hs) :
          (i <= Len(ws) /\ hs[i] = "manhattan_distance") => ~(ws[i] > 0)

\* the calls the model makes: a deep start is searched only with a weight
\* list that uses a heuristic, which keeps its run below MaxIter pops
Admitted(s, hs, ws) ==
    /\ Evaluable(s, hs, ws)
    /\ s \in DeepStarts => \E i \in 1..Len(ws) : ws[i] > 0

NoResult == [kind |-> "none", node |-> 0, root |-> 0]
ReturnFalse == [kind |-> "False", node |-> 0, root |-> 0]
ReturnPair(n, r) == [kind |-> "pair", node |-> n, root |-> r]

NoRecord == [array |-> <<>>, weights |-> <<>>, expanded_nodes |-> 0,
             depth |-> 0]

NoMetrics == [path |-> <<>>, visited_nodes |-> 0, expanded_nodes |-> 0,
              branching_factor |-> <<0, 0>>]

-----------------------------------------------------------------------------
(* The program *)

Init ==
    /\ pc = "idle"
    /\ caller = "none"
    /\ start = <<>>
    /\ goal = <<>>
    /\ heuristics = <<>>
    /\ weights = <<>>
    /\ initial_state = Unset
    /\ nodes = <<>>
    /\ open_set = <<>>
    /\ g_score = <<>>
    /\ current = 0
    /\ neighbors = <<>>
    /\ pops = 0
    /\ unfinished_tasks = 0
    /\ result = NoResult
    /\ err = "none"
    /\ metrics = NoMetrics
    /\ record = NoRecord
    /\ origin = <<>>
    /\ cur = <<>>
    /\ steps = 0

\* solve(start, goal, heuristics, weights) is called, astar.py:276
CallSolve ==
    /\ pc = "idle"
    /\ \E s \in StartPuzzles, ws \in WeightLists, init \in InitialStates :
          /\ Admitted(s, BothHeuristics, ws)
          /\ start' = s
          /\ weights' = ws
          /\ initial_state' = init
    /\ goal' = goal_state
    /\ heuristics' = BothHeuristics
    /\ caller' = "solve"
    /\ pc' = "solve"
    /\ UNCHANGED <<nodes, open_set, g_score, current, neighbors, pops,
                   unfinished_tasks, result, err, metrics, record>>
    /\ UNCHANGED walkVars

\* start_run(start, weights, goal) calls a_star, statistics.py:32
CallStartRun ==
    /\ pc = "idle"
    /\ \E s \in StartPuzzles, ws \in WeightLists :
          /\ Admitted(s, BothHeuristics, ws)
          /\ start' = s
          /\ weights' = ws
    /\ goal' = goal_state
    /\ heuristics' = BothHeuristics
    /\ caller' = "start_run"
    /\ pc' = "a_star"
    /\ UNCHANGED <<initial_state, nodes, open_set, g_score, current,
                   neighbors, pops, unfinished_tasks, result, err, metrics, record>>
    /\ UNCHANGED walkVars

\* the puzzle the solvability gate of solve tests
GateArgument == initial_state

\* solve, astar.py:245-248: the gate
SolveGate ==
    /\ pc = "solve"
    /\ IF GateArgument = Unset
       THEN pc' = "error" /\ err' = "NameError"
       ELSE /\ err' = err
            /\ pc' = IF is_solvable(GateArgument) THEN "a_star" ELSE "unsolvable"
    /\ UNCHANGED <<caller, start, goal, heuristics, weights, initial_state,
                   nodes, open_set, g_score, current, neighbors, pops,
                   unfinished_tasks, result, metrics, record>>
    /\ UNCHANGED walkVars

\* a variant that keeps the value of a key already present
DictSet_keep_present(d, key, value) ==
    [k \in DOMAIN d \cup {key} |-> IF k \in DOMAIN d THEN d[k] ELSE value]

\* g_score[key] = value, the dict keyed by puzzle (Node.__hash__, Node.__eq__)
DictSet(d, key, value) ==
    [k \in DOMAIN d \cup {key} |-> IF k = key THEN value ELSE d[k]]

\* a_star, astar.py:92-98: the root, its cost and its score
AStarInit ==
    /\ pc = "a_star"
    /\ LET root == Node("root", start, 0)
       IN  /\ g_score' = DictSet(<<>>, start, 0)
           /\ IF CombineRaises(heuristics, weights)
              THEN /\ nodes' = <<root>>
                   /\ pc' = "error"
                   /\ err' = "IndexError"
                   /\ UNCHANGED <<open_set, unfinished_tasks>>
              ELSE LET h == 0
                            + combine_heuristics(start, goal, heuristics, weights)
                       scored == <<[root EXCEPT !.heuristic = h]>>
                   IN  /\ nodes' = scored
                       /\ open_set' = heappush(scored, <<>>, <<h, 1>>)
                       /\ unfinished_tasks' = unfinished_tasks + 1
                       /\ pc' = "loop"
                       /\ err' = err
    /\ UNCHANGED <<caller, start, goal, heuristics, weights, initial_state,
                   current, neighbors, pops, result, metrics, record>>
    /\ UNCHANGED walkVars

\* a_star, astar.py:100 and 116: the queue is empty, the loop ends
LoopExit ==
    /\ pc = "loop"
    /\ Len(open_set) = 0
    /\ result' = ReturnFalse
    /\ pc' = "returned"
    /\ UNCHANGED <<caller, start, goal, heuristics, weights, initial_state,
                   nodes, open_set, g_score, current, neighbors, pops,
                   unfinished_tasks, err, metrics, record>>
    /\ UNCHANGED walkVars

\* indices first..last as a sequence
Range(first, last) == [i \in 1..(last - first + 1) |-> first + i - 1]

\* a_star, astar.py:101-104: pop, test for the goal, generate the neighbours
Pop ==
    /\ pc = "loop"
    /\ Len(open_set) > 0
    /\ pops < MaxIter
    /\ LET popped == open_set[1][2]
       IN  /\ current' = popped
           /\ open_set' = heappop(nodes, open_set)
           /\ pops' = pops + 1
           /\ IF nodes[popped].puzzle = goal
              THEN /\ result' = ReturnPair(popped, 1)
                   /\ pc' = "returned"
                   /\ UNCHANGED <<nodes, neighbors, unfinished_tasks, err>>
              ELSE LET fresh == get_neighbors(nodes, popped)
                   IN  /\ nodes' = nodes \o fresh
                       /\ neighbors' = Range(Len(nodes) + 1, Len(nodes) + Len(fresh))
                       /\ result' = result
                       /\ IF fresh # <<>>
                          THEN pc' = "for" /\ UNCHANGED <<unfinished_tasks, err>>
                          ELSE IF unfinished_tasks - 1 < 0
                          THEN /\ pc' = "error"
                               /\ err' = "ValueError"
                               /\ UNCHANGED unfinished_tasks
                          ELSE /\ pc' = "loop"
                               /\ unfinished_tasks' = unfinished_tasks - 1
                               /\ err' = err
    /\ UNCHANGED <<caller, start, goal, heuristics, weights, initial_state,
                   g_score, metrics, record>>
    /\ UNCHANGED walkVars

\* a variant that lets every neighbour through
Improves_always(tentative_g_score, d, puzzle) == TRUE

\* g_score.get(neighbor, float('inf')) compared with tentative_g_score
Improves(tentative_g_score, d, puzzle) ==
    puzzle \notin DOMAIN d \/ tentative_g_score < d[puzzle]

\* current.children.append(neighbor)
AppendChild(ns, parent, child) ==
    [ns EXCEPT ![parent].children = Append(@, child)]

\* a_star, astar.py:105-115: the body of the for loop for one neighbour, and
\* task_done() after the last one
Visit ==
    /\ pc = "for"
    /\ neighbors # <<>>
    /\ LET neighbor == Head(neighbors)
           linked == AppendChild(nodes, current, neighbor)
           puzzle == nodes[neighbor].puzzle
           tentative_g_score == g_score[nodes[current].puzzle] + 1
           improves == Improves(tentative_g_score, g_score, puzzle)
           h == tentative_g_score
                + combine_heuristics(puzzle, goal, heuristics, weights)
           scored == [linked EXCEPT ![neighbor].heuristic = h]
           put == improves /\ ~AnyInQueue(h, neighbor, open_set)
           last == Tail(neighbors) = <<>>
           unfinished == unfinished_tasks + (IF put THEN 1 ELSE 0)
           raises == last /\ unfinished - 1 < 0
       IN  /\ g_score' = IF improves
                         THEN DictSet(g_score, puzzle, tentative_g_score)
                         ELSE g_score
           /\ nodes' = IF improves THEN scored ELSE linked
           /\ open_set' = IF put
                          THEN heappush(scored, open_set, <<h, neighbor>>)
                          ELSE open_set
           /\ neighbors' = Tail(neighbors)
           /\ unfinished_tasks' = IF last /\ ~raises
                                  THEN unfinished - 1 ELSE unfinished
           /\ pc' = IF raises THEN "error"
                    ELSE IF last THEN "loop" ELSE "for"
           /\ err' = IF raises THEN "ValueError" ELSE err
    /\ UNCHANGED <<caller, start, goal, heuristics, weights, initial_state,
                   current, pops, result, metrics, record>>
    /\ UNCHANGED walkVars

\* solve, astar.py:251-256: unpack what a_star returned, generate the metrics
SolveMetrics ==
    /\ pc = "returned"
    /\ caller = "solve"
    /\ IF result.kind = "pair"
       THEN /\ metrics' = generate_metrics(nodes, result.node, result.root)
            /\ pc' = "done"
            /\ err' = err
       ELSE /\ pc' = "error"
            /\ err' = "TypeError"
            /\ metrics' = metrics
    /\ UNCHANGED <<caller, start, goal, heuristics, weights, initial_state,
                   nodes, open_set, g_score, current, neighbors, pops,
                   unfinished_tasks, result, record>>
    /\ UNCHANGED walkVars

\* start_run, statistics.py:32-37: unpack what a_star returned into
\* path, expanded_nodes and build the result record; time_elapsed, a
\* difference of wall-clock readings, is left out
StartRunReturn ==
    /\ pc = "returned"
    /\ caller = "start_run"
    /\ IF result.kind = "pair"
       THEN LET path == result.node
                expanded_nodes == result.root
            IN  /\ record' = [array |-> start, weights |-> weights,
                              expanded_nodes |-> expanded_nodes,
                              depth |-> NodeLen(nodes, path) - 1]
                /\ pc' = "done"
                /\ err' = err
       ELSE /\ pc' = "error"
            /\ err' = "TypeError"
            /\ record' = record
    /\ UNCHANGED <<caller, start, goal, heuristics, weights, initial_state,
                   nodes, open_set, g_score, current, neighbors, pops,
                   unfinished_tasks, result, metrics>>
    /\ UNCHANGED walkVars

Next ==
    \/ CallSolve
    \/ CallStartRun
    \/ SolveGate
    \/ AStarInit
    \/ LoopExit
    \/ Pop
    \/ Visit
    \/ SolveMetrics
    \/ StartRunReturn

Spec == Init /\ [][Next]_vars

-----------------------------------------------------------------------------
(* Walks over the puzzle graph: the blank is moved one legal step at a     *)
(* time from a chosen puzzle.  The search does not run in these            *)
(* specifications.                                                         *)

SearchIdle ==
    /\ pc = "idle"
    /\ caller = "none"
    /\ start = <<>>
    /\ goal = <<>>
    /\ heuristics = <<>>
    /\ weights = <<>>
    /\ initial_state = Unset
    /\ nodes = <<>>
    /\ open_set = <<>>
    /\ g_score = <<>>
    /\ current = 0
    /\ neighbors = <<>>
    /\ pops = 0
    /\ unfinished_tasks = 0
    /\ result = NoResult
    /\ err = "none"
    /\ metrics = NoMetrics
    /\ record = NoRecord

\* every puzzle reachable from goal_state and from odd_state
ReachInit ==
    /\ SearchIdle
    /\ origin \in {goal_state, odd_state}
    /\ cur = origin
    /\ steps = 0

ReachStep ==
    /\ cur' \in LegalMoves(cur)
    /\ UNCHANGED <<origin, steps>>
    /\ UNCHANGED searchVars

ReachSpec == ReachInit /\ [][ReachStep]_vars

\* walks of at most MaxWalk moves, with the moves counted
WalkOrigins == {goal_state, odd_state, example_state}

WalkInit ==
    /\ SearchIdle
    /\ origin \in WalkOrigins
    /\ cur = origin
    /\ steps = 0

WalkStep ==
    /\ steps < MaxWalk
    /\ cur' \in LegalMoves(cur)
    /\ steps' = steps + 1
    /\ UNCHANGED origin
    /\ UNCHANGED searchVars

WalkSpec == WalkInit /\ [][WalkStep]_vars

-----------------------------------------------------------------------------
(* Claims *)

\* C2: is_solvable(p) is true exactly when goal_state can be reached from p
\* by legal blank moves.  Legal moves can be undone, so the puzzles that
\* reach goal_state are those a walk from goal_state reaches: every puzzle
\* reached from goal_state is accepted, every puzzle reached from odd_state
\* is rejected (so the two sets are disjoint).
TheoremC2 ==
    /\ is_solvable(cur) <=> (origin = goal_state)
    /\ \A q \in LegalMoves(cur) : cur \in LegalMoves(q)

WitnessC2 ==
    /\ origin = goal_state
    /\ cur = example_state
    /\ is_solvable(cur)

\* C3: manhattan_distance(start, goal) never exceeds the least number of
\* moves from start to goal; a walk of `steps` moves from origin to cur
\* shows that this least number is at most `steps`.
CounterexampleC3 ==
    manhattan_distance(origin, cur) <= steps

\* a_star has been invoked on a start that is a permutation accepted by
\* is_solvable, with goal_state as goal and as many non-negative weights as
\* heuristics
SolvableRun ==
    /\ pc = "a_star" \/ nodes # <<>>
    /\ IsPermutation(start)
    /\ is_solvable(start)
    /\ goal = goal_state
    /\ Len(weights) = Len(heuristics)
    /\ \A i \in 1..Len(weights) : weights[i] >= 0

\* C1: a_star called with a start that is a permutation accepted by
\* is_solvable, with goal_state as goal and as many non-negative weights as
\* heuristics, terminates and returns a pair (node, root) whose node holds
\* goal and whose root holds start.  Termination: until a_star has returned
\* its next step can always be taken (the queue is not empty and fewer than
\* MaxIter pops were made, or a neighbour is left to visit), every step is a
\* pop or consumes a neighbour of the last pop, so a run ends within MaxIter
\* pops; it raises nothing and does not return False.
TheoremC1 ==
    SolvableRun =>
        /\ err = "none"
        /\ pc # "error"
        /\ result.kind # "False"
        /\ pc = "loop" => (Len(open_set) > 0 /\ pops < MaxIter)
        /\ pc = "for" => (neighbors # <<>> /\ Len(neighbors) <= 4)
        /\ pc \in {"returned", "done"} =>
              /\ result.kind = "pair"
              /\ nodes[result.node].puzzle = goal
              /\ nodes[result.root].puzzle = start
              /\ result.root = 1

WitnessC1 ==
    /\ pc = "returned"
    /\ result.kind = "pair"
    /\ is_solvable(start)
    /\ nodes[result.node].puzzle = goal_state
    /\ nodes[result.root].puzzle = start
    /\ pops >= 10

Reverse(name) ==
    CASE name = "up" -> "down"
      [] name = "down" -> "up"
      [] name = "left" -> "right"
      [] name = "right" -> "left"
      [] OTHER -> "none"

\* the nodes get_neighbors created for `current` that the loop has not
\* handed on yet appear nowhere else
Fresh(n) ==
    /\ \A m \in 1..Len(nodes) :
          /\ nodes[m].parent # n
          /\ \A k \in 1..Len(nodes[m].children) : nodes[m].children[k] # n
    /\ \A k \in 1..Len(open_set) : open_set[k][2] # n

\* C4: for every node of the tree, get_neighbors returns at most 4 nodes,
\* each with that node as parent and no children, none named by the reverse
\* of the node's own move, hence none holding the puzzle of the node's
\* parent; for the root every legal move is returned; and right after the
\* call the returned nodes are new objects, referenced nowhere else.
TheoremC4 ==
    /\ \A n \in 1..Len(nodes) :
          LET returned == get_neighbors(nodes, n)
          IN  /\ Len(returned) <= 4
              /\ \A i \in 1..Len(returned) :
                    /\ returned[i].parent = n
                    /\ returned[i].children = <<>>
                    /\ returned[i].name # Reverse(nodes[n].name)
                    /\ returned[i].puzzle \in LegalMoves(nodes[n].puzzle)
                    /\ nodes[n].parent # 0 =>
                          returned[i].puzzle # nodes[nodes[n].parent].puzzle
              /\ nodes[n].name = "root" =>
                    {returned[i].puzzle : i \in 1..Len(returned)}
                        = LegalMoves(nodes[n].puzzle)
    /\ (pc = "for" /\ Len(nodes[current].children) = 0) =>
          \A k \in 1..Len(neighbors) :
              /\ Fresh(neighbors[k])
              /\ nodes[neighbors[k]] = get_neighbors(nodes, current)[k]

WitnessC4 ==
    /\ pc = "for"
    /\ nodes[current].name = "up"
    /\ Len(nodes[current].children) = 0
    /\ Len(neighbors) = 3

\* C5: solve decides the gate on its parameter start: an odd start is
\* reported unsolvable and a_star is not invoked, an even start goes on to
\* a_star, whatever initial_state holds.
CounterexampleC5 ==
    (caller = "solve" /\ initial_state # Unset /\ pc \notin {"idle", "solve"}) =>
        IF is_solvable(start)
        THEN pc # "unsolvable"
        ELSE pc = "unsolvable" /\ nodes = <<>>

\* C7: for the node a_star returned, reconstruct_path starts with that node,
\* ends with the root, the only element without parent, and each element
\* after the first is the parent of the one before it; it runs from the goal
\* puzzle back to the start puzzle.
TheoremC7 ==
    result.kind = "pair" =>
        LET path == reconstruct_path(nodes, result.node)
        IN  /\ Len(path) >= 1
            /\ path[1] = result.node
            /\ path[Len(path)] = result.root
            /\ \A i \in 1..Len(path) :
                  (nodes[path[i]].parent = 0) <=> (i = Len(path))
            /\ \A i \in 2..Len(path) : path[i] = nodes[path[i - 1]].parent
            /\ nodes[path[1]].puzzle = goal
            /\ nodes[path[Len(path)]].puzzle = start
            /\ (pc = "done" /\ caller = "solve") => metrics.path = path

WitnessC7 ==
    /\ pc = "done"
    /\ caller = "solve"
    /\ result.kind = "pair"
    /\ Len(metrics.path) >= 4

\* the tree nodes that have at least one child
NodesWithChildren == {n \in 1..Len(nodes) : nodes[n].children # <<>>}

\* C8: for every tree a_star returns, calculate_expanded_nodes(root) is the
\* number of tree nodes that have at least one child.
CounterexampleC8 ==
    result.kind = "pair" =>
        calculate_expanded_nodes(nodes, result.root)
            = Cardinality(NodesWithChildren)

\* C9: when a_star returns, len(root) is the number of Node objects created
\* during the run.
TheoremC9 ==
    pc = "returned" => NodeLen(nodes, 1) = Len(nodes)

\* a_star returned a tree with a neighbour that was appended to the
\* children of its parent but did not improve the cost table (it was never
\* scored) and so never entered the frontier
WitnessC9 ==
    /\ pc = "returned"
    /\ result.kind = "pair"
    /\ Len(nodes) >= 20
    /\ \E n \in 2..Len(nodes) : nodes[n].heuristic = 0

\* a start or goal that is no permutation of 0..8, or heuristics and weights
\* of different lengths
Malformed ==
    \/ ~IsPermutation(start)
    \/ ~IsPermutation(goal)
    \/ Len(heuristics) # Len(weights)

\* C10: malformed input is rejected before any search work: no root node is
\* created, nothing enters the frontier, no cost-table entry is written.
CounterexampleC10 ==
    (pc # "idle" /\ Malformed) =>
        /\ nodes = <<>>
        /\ open_set = <<>>
        /\ DOMAIN g_score = {}

\* the number of moves on the parent chain from the root to node n
SolutionDepth(n) == Len(reconstruct_path(nodes, n)) - 1

\* C11: for every solvable start, the "depth" field of the record start_run
\* builds is the number of moves on the parent chain from the root to the
\* goal node a_star returned.
CounterexampleC11 ==
    (pc = "done" /\ caller = "start_run" /\ is_solvable(start)) =>
        record.depth = SolutionDepth(result.node)

\* the puzzle s with the tiles a and b exchanged
SwapTiles(s, a, b) ==
    [i \in 1..Len(s) |-> IF s[i] = a THEN b ELSE IF s[i] = b THEN a ELSE s[i]]

\* C12: for every permutation that is_solvable accepts and every two distinct
\* non-blank tiles, the puzzle with those two tiles exchanged is rejected by
\* is_solvable.
TheoremC12 ==
    is_solvable(cur) =>
        \A a \in 1..(Cells - 1) : \A b \in (a + 1)..(Cells - 1) :
            ~is_solvable(SwapTiles(cur, a, b))

WitnessC12 ==
    /\ cur = deep_state
    /\ is_solvable(cur)
    /\ ~is_solvable(SwapTiles(cur, 3, 8))

\* C13: for all states s and g, combine_heuristics(s, g, [manhattan_distance,
\* hamming_distance], [1.0, 0.0]) equals manhattan_distance(s, g); the
\* heuristic of weight 0 contributes nothing to the sum.  Here s is every
\* permutation and g the permutation its walk started from.
TheoremC13 ==
    combine_heuristics(cur, origin, BothHeuristics, <<1, 0>>)
        = manhattan_distance(cur, origin)

WitnessC13 ==
    /\ cur = deep_state
    /\ hamming_distance(cur, origin) > 0
    /\ manhattan_distance(cur, origin) > 0
    /\ combine_heuristics(cur, origin, BothHeuristics, <<1, 0>>)
           = manhattan_distance(cur, origin)

\* the for loop is about to visit the neighbour at the head of neighbors
Visiting == pc = "for" /\ neighbors # <<>>

\* the cost the visited neighbour is offered, and whether it is strictly
\* below the entry of its puzzle (no entry counts as infinity)
OfferedG == g_score[nodes[current].puzzle] + 1

StrictlyBetter ==
    LET puzzle == nodes[Head(neighbors)].puzzle
    IN  puzzle \notin DOMAIN g_score \/ OfferedG < g_score[puzzle]

\* one visit of a neighbour
VisitStepC14 ==
    Visiting =>
        LET neighbor == Head(neighbors)
            puzzle == nodes[neighbor].puzzle
            h == OfferedG + combine_heuristics(puzzle, goal, heuristics, weights)
        IN  IF StrictlyBetter
            THEN /\ DOMAIN g_score' = DOMAIN g_score \cup {puzzle}
                 /\ g_score'[puzzle] = OfferedG
                 /\ \A q \in DOMAIN g_score \ {puzzle} : g_score'[q] = g_score[q]
                 /\ nodes'[neighbor].heuristic = h
                 /\ Len(open_set') = Len(open_set) + 1
                 /\ \E k \in 1..Len(open_set') : open_set'[k] = <<h, neighbor>>
            ELSE /\ g_score' = g_score
                 /\ open_set' = open_set
                 /\ nodes'[neighbor].heuristic = nodes[neighbor].heuristic

\* no entry of the cost table is removed or raised
NeverIncreases ==
    \A q \in DOMAIN g_score :
        /\ q \in DOMAIN g_score'
        /\ g_score'[q] <= g_score[q]

StartStaysZero ==
    /\ pc \in {"loop", "for", "returned", "done"} => start \in DOMAIN g_score
    /\ start \in DOMAIN g_score => g_score[start] = 0

\* C14: for each neighbour generated from the popped node, with tentative_g =
\* g_score[current.puzzle] + 1, the entry of the neighbour's puzzle is written
\* (to tentative_g) and the neighbour is scored and offered to the frontier
\* only if tentative_g is strictly below the existing entry (absent =
\* infinity); otherwise cost table and frontier are left unchanged.  Hence no
\* entry ever increases and the entry of start stays 0.
TheoremC14 ==
    /\ [][VisitStepC14 /\ NeverIncreases]_vars
    /\ []StartStaysZero

\* a neighbour is about to be visited whose puzzle already has an entry that
\* the offered cost does not beat
WitnessC14 ==
    /\ Visiting
    /\ nodes[Head(neighbors)].puzzle \in DOMAIN g_score
    /\ ~StrictlyBetter

\* the g a scored node was inserted with: its score less the weighted sum
InsertedG(n) ==
    nodes[n].heuristic
        - combine_heuristics(nodes[n].puzzle, goal, heuristics, weights)

\* node n is a stale entry: the cost table holds a strictly smaller cost for
\* its puzzle than the one n was inserted with
Stale(n) == InsertedG(n) > g_score[nodes[n].puzzle]

\* the pop of a stale entry expands it
StalePopExpands ==
    (pc = "loop" /\ open_set # <<>> /\ Stale(open_set[1][2])) =>
        /\ current' = open_set[1][2]
        /\ pc' = "for"
        /\ result' = result
        /\ neighbors' # <<>>
        /\ \A k \in 1..Len(neighbors') :
              nodes'[neighbors'[k]] = get_neighbors(nodes, current')[k]

\* the visit of a neighbour of a stale entry appends it and does nothing else
StaleVisitIsIdle ==
    (Visiting /\ Stale(current)) =>
        /\ nodes'[current].children
               = Append(nodes[current].children, Head(neighbors))
        /\ g_score' = g_score
        /\ open_set' = open_set

\* C15: stale frontier entries are harmless: whenever a_star pops a node
\* whose puzzle already has a cost-table entry strictly smaller than the g it
\* was inserted with, the node is still expanded (its neighbours are generated
\* and appended to its children) but none of them changes the cost table or
\* is inserted into the frontier.
TheoremC15 == [][StalePopExpands /\ StaleVisitIsIdle]_vars

\* a stale entry was popped and all its neighbours but the last were visited
WitnessC15 ==
    /\ pc = "for"
    /\ Stale(current)
    /\ Len(neighbors) = 1
    /\ Len(nodes[current].children) >= 1

\* node n was put in the frontier: the root, or a neighbour that was scored
\* (a score includes a g of at least 1; a node never scored keeps 0)
EverPut(n) ==
    IF n = 1 THEN ~CombineRaises(heuristics, weights)
    ELSE nodes[n].heuristic > 0

\* C16: when a_star returns (node, root), the number of moves on node's parent
\* chain, len(reconstruct_path(node)) - 1, equals the cost-table entry of the
\* goal at that moment; and every node ever put in the frontier has a tree
\* depth equal to the g used in its score, although that g comes from the
\* cost table keyed by puzzle.
TheoremC16 ==
    /\ (pc \in {"returned", "done"} /\ result.kind = "pair") =>
          SolutionDepth(result.node) = g_score[goal]
    /\ \A n \in 1..Len(nodes) :
          EverPut(n) => SolutionDepth(n) = InsertedG(n)

\* a_star returned a goal node three moves deep or more, from a run in which
\* the entry of a puzzle was lowered after a node holding it was put in the
\* frontier
WitnessC16 ==
    /\ pc = "returned"
    /\ result.kind = "pair"
    /\ SolutionDepth(result.node) >= 3
    /\ \E n \in 1..Len(nodes) : EverPut(n) /\ Stale(n)


\* node n stands in the queue
InQueue(queue, n) == \E k \in 1..Len(queue) : queue[k][2] = n

\* a strictly improving neighbour is put, and no entry of the same score and
\* the same puzzle stands in the frontier when it is
ImprovingIsPut ==
    (Visiting /\ StrictlyBetter) =>
        LET neighbor == Head(neighbors)
            puzzle == nodes[neighbor].puzzle
            h == OfferedG + combine_heuristics(puzzle, goal, heuristics, weights)
        IN  /\ ~\E k \in 1..Len(open_set) :
                   /\ open_set[k][1] = h
                   /\ nodes[open_set[k][2]].puzzle = puzzle
            /\ ~InQueue(open_set, neighbor)
            /\ InQueue(open_set', neighbor)
            /\ Len(open_set') = Len(open_set) + 1

\* a node that enters the frontier was never in it before
PutOnce ==
    \A n \in 1..Len(nodes) :
        (InQueue(open_set', n) /\ ~InQueue(open_set, n)) => ~EverPut(n)

\* a node that is popped leaves the frontier and was never expanded before
PopOnce ==
    pops' = pops + 1 =>
        /\ InQueue(open_set, current')
        /\ ~InQueue(open_set', current')
        /\ nodes[current'].children = <<>>

\* no node stands in the frontier twice
QueuedOnce ==
    \A i, j \in 1..Len(open_set) :
        open_set[i][2] = open_set[j][2] => i = j

\* C17: the frontier membership test never suppresses an insertion: every
\* neighbour that strictly improves the cost table is put in the frontier,
\* and no entry with the same score and the same puzzle is present at that
\* moment.  Each tree node is put in the frontier at most once and popped
\* (expanded) at most once.
TheoremC17 ==
    /\ [][ImprovingIsPut /\ PutOnce /\ PopOnce]_vars
    /\ []QueuedOnce

\* a strictly improving neighbour is about to be visited while a node of the
\* same puzzle, with another score, stands in the frontier
WitnessC17 ==
    /\ Visiting
    /\ StrictlyBetter
    /\ \E k \in 1..Len(open_set) :
          nodes[open_set[k][2]].puzzle = nodes[Head(neighbors)].puzzle

\* the cell (0-based, row by row) next to cell b in the direction name, or
\* Cells when there is none inside the grid
Adjacent(b, name) ==
    IF name = "up" /\ b \div Side > 0 THEN b - Side
    ELSE IF name = "down" /\ b \div Side < Side - 1 THEN b + Side
    ELSE IF name = "left" /\ b % Side > 0 THEN b - 1
    ELSE IF name = "right" /\ b % Side < Side - 1 THEN b + 1
    ELSE Cells

\* node n holds its parent's puzzle with the blank exchanged with the tile
\* next to it in the direction of n's name
MovedAsNamed(n) ==
    LET above == nodes[nodes[n].parent].puzzle
        b == CHOOSE i \in 0..(Cells - 1) : above[i + 1] = 0
        t == Adjacent(b, nodes[n].name)
    IN  /\ t < Cells
        /\ nodes[n].puzzle =
               [i \in 1..Cells |-> IF i = b + 1 THEN above[t + 1]
                                   ELSE IF i = t + 1 THEN 0
                                   ELSE above[i]]

TreeShape ==
    IsPermutation(start) =>
        /\ \A n \in 1..Len(nodes) : IsPermutation(nodes[n].puzzle)
        /\ Len(nodes) >= 1 => nodes[1].parent = 0
        /\ \A n \in 2..Len(nodes) :
              /\ nodes[n].parent \in 1..(n - 1)
              /\ MovedAsNamed(n)

\* nodes stay, keep their parent, and only current's children list grows
TreeGrows ==
    IsPermutation(start) =>
        /\ Len(nodes') >= Len(nodes)
        /\ \A n \in 1..Len(nodes) :
              /\ nodes'[n].parent = nodes[n].parent
              /\ nodes'[n].puzzle = nodes[n].puzzle
              /\ nodes'[n].children # nodes[n].children =>
                    /\ pc = "for"
                    /\ n = current
                    /\ Len(nodes'[n].children) > Len(nodes[n].children)
                    /\ SubSeq(nodes'[n].children, 1, Len(nodes[n].children))
                           = nodes[n].children

\* C18: in every reachable state of a_star started from a permutation of
\* 0..8, every tree node's puzzle is a permutation of 0..8 and every non-root
\* node's puzzle is its parent's puzzle with the blank exchanged with the
\* tile adjacent to it in the direction given by the node's name; parent
\* references never change after creation, and a node's children list only
\* grows while that node is the popped current node.
TheoremC18 ==
    /\ []TreeShape
    /\ [][TreeGrows]_vars

\* a tree three levels deep with a node of each name and a node whose
\* children list was filled
WitnessC18 ==
    /\ IsPermutation(start)
    /\ pc = "loop"
    /\ \A name \in {"up", "down", "left", "right"} :
          \E n \in 2..Len(nodes) : nodes[n].name = name /\ MovedAsNamed(n)
    /\ \E n \in 2..Len(nodes) :
          /\ nodes[n].parent >= 2
          /\ Len(nodes[nodes[n].parent].children) >= 2

=============================================================================
